---- MODULE Spec2Model ----
(***************************************************************************)
(* Model of the App Store Server API client (store.go): the request        *)
(* executor built by StoreClient.httpClient (bearer-token injection        *)
(* wrapped by the retry decorator), the pagination loops and the single   *)
(* calls that drive it, StoreClient.Do, and the signed-payload parse       *)
(* operations.                                                             *)
(*                                                                         *)
(* Errors are modelled as wrap chains: a sequence of error names from the  *)
(* outermost wrapper to the innermost cause; the nil error is <<>>.        *)
(* errors.Is(err, target) holds when target occurs in the chain.           *)
(***************************************************************************)
EXTENDS Integers, Sequences, FiniteSets, TLC

(* ------------------------------ bounds --------------------------------- *)

\* Concurrent callers of the token manager.
NumCallers == 2

\* At most MaxTransactions signed transactions in one batch.
MaxTransactions == 2

\* The clock runs from 1 to MaxTime.
MaxTime == 3

\* At most MaxAttempts runs of the innermost executor within one call.
MaxAttempts == 3

(* -------------------------- program constants -------------------------- *)

StatusOK == 200

StatusUnauthorized == 401

StatusNotFound == 404

StatusTooManyRequests == 429

StatusInternalServerError == 500

\* Validity window of a generated bearer token, in clock ticks.
Validity == 2

(* ------------------------------- errors -------------------------------- *)

NoErr == <<>>

\* errors.Is: the target occurs somewhere in the wrap chain.
ErrorsIs(err, target) == \E i \in 1..Len(err) : err[i] = target

\* fmt.Errorf("<msg> %w", err)
Wrap(msg, err) == <<msg>> \o err

\* What the transport can report instead of a response.
TransportErrors ==
    { <<"EOF">>,
      <<"url.Error", "EOF">>,
      <<"url.Error", "unexpected EOF">>,
      <<"url.Error", "connection reset">> }

\* What the transport reports for a request whose context is cancelled.
CtxErr == <<"url.Error", "context canceled">>

(* ------------------------------ responses ------------------------------ *)

Revisions == {"", "r1", "r2"}

\* How many items (transactions, notifications) the sample pages list: the
\* pages with revision "r1" list two items, the others none.
ItemCount(r) == IF r = "r1" THEN 2 ELSE 0

\* Decoded JSON bodies of a history page.
PageBodies ==
    { [kind |-> "page", hasMore |-> h, revision |-> r, items |-> ItemCount(r)] :
        h \in BOOLEAN, r \in Revisions }

\* A body that is no JSON at all, and bodies of failed requests.
GarbageBody == [kind |-> "garbage", hasMore |-> FALSE, revision |-> "", items |-> 0]

EnvelopeBody == [kind |-> "envelope", hasMore |-> FALSE, revision |-> "", items |-> 0]

PlainBody == [kind |-> "plain", hasMore |-> FALSE, revision |-> "", items |-> 0]

NoBody == [kind |-> "none", hasMore |-> FALSE, revision |-> "", items |-> 0]

\* A body whose bytes cannot be read to the end.
UnreadableBody == [kind |-> "unreadable", hasMore |-> FALSE, revision |-> "", items |-> 0]

\* Outcome of one run of an executor: (response, error).  status = 0 stands
\* for a nil response.
Outcome(status, body, err) == [status |-> status, body |-> body, err |-> err]

\* Everything the backend may answer to one request.
ServerOutcomes ==
    { Outcome(StatusOK, b, NoErr) :
        b \in PageBodies \cup {GarbageBody, EnvelopeBody, UnreadableBody} }
    \cup { Outcome(StatusUnauthorized, EnvelopeBody, NoErr),
           Outcome(StatusNotFound, EnvelopeBody, NoErr),
           Outcome(StatusInternalServerError, EnvelopeBody, NoErr),
           Outcome(StatusInternalServerError, PlainBody, NoErr) }
    \cup { Outcome(0, NoBody, e) : e \in TransportErrors }

(* ------------------------------ operations ----------------------------- *)

\* The operations that collect pointers to their page records, and all the
\* operations with a pagination loop.  GetNotificationHistory collects the
\* items of each page by value.
HistoryOps == {"GetTransactionHistory", "GetRefundHistory"}

PagedOps == HistoryOps \cup {"GetNotificationHistory"}

\* The operations that make one call and decode its answer into one object.
SingleOps == {"GetALLSubscriptionStatuses", "GetTransactionInfo", "LookupOrderID"}

Ops == PagedOps \cup SingleOps \cup {"SendRequestTestNotification", "Do"}

\* How the request of a call comes out: it can be built, it cannot (a
\* method or URL that http.NewRequest rejects), or the context is nil.  Do
\* tells the last two apart; for http.NewRequestWithContext in the other
\* operations a nil context is one more request that cannot be built.
Requests(o) == IF o = "Do" THEN {"ok", "bad", "nilctx"} ELSE {"ok", "bad"}

VARIABLES
    now,         \* the clock (time.Now)
    token,       \* StoreClient.Token: the cached bearer and its expiry
    op,          \* the public operation in progress, or "none"
    args,        \* the arguments of that operation
    pc,          \* where the operation stands
    cancelled,   \* the caller's context is cancelled
    cancelPc,    \* where the operation stood when the context was cancelled
    revision,    \* continuation token the next request carries
    handlers,    \* destinations of the body handlers wrapped around the client
    pageRec,     \* the page records allocated so far (rsp of each iteration)
    responses,   \* the page list being collected (pointers to page records,
                 \* or the content of the pages for GetNotificationHistory)
    attempts,    \* log of the runs of the innermost executor in this call
    reqLog,      \* requests that reached the backend in this call
    rspLog,      \* what the backend answered, in order
    result,      \* what the operation returned
    parseIn,     \* the signed payload string (or batch) handed to a parse operation
    parseOp,     \* the parse operation applied to it, or "none"
    parseOut,    \* what the parse operation returned
    mu,          \* Token's mutex: the caller holding it, or 0
    callers      \* concurrent callers of Token.GenerateIfExpired

httpVars == << now, token, op, args, pc, cancelled, cancelPc, revision, handlers,
               pageRec, responses, attempts, reqLog, rspLog, result >>

parseVars == << parseIn, parseOp, parseOut >>

tokVars == << mu, callers >>

vars == << httpVars, parseVars, tokVars >>

(* ---------------------------- Token Manager ---------------------------- *)

\* Token{}: no bearer yet, expiry at the zero time.
EmptyToken == [bearer |-> 0, expiredAt |-> 0]

\* Variant: the token is still used at the very instant of its expiry.
ExpiredLate(t, n) == n > t.expiredAt

\* The cached token is expired once the clock reaches its expiry.
Expired(t, n) == n >= t.expiredAt

\* A token signed at time n: the bearer is the compact JWS whose issued-at
\* claim is n (represented by n), valid for the validity window.
Generate(n) == [bearer |-> n, expiredAt |-> n + Validity]

TokenGenerationError == <<"TokenGenerationError">>

\* GenerateIfExpired: the possible (cache after, bearer returned, error).
\* Signing may fail; a failure leaves the cache as it was.
GenerateIfExpired(t, n) ==
    IF Expired(t, n)
    THEN { [token |-> Generate(n), bearer |-> Generate(n).bearer, err |-> NoErr],
           [token |-> t, bearer |-> 0, err |-> TokenGenerationError] }
    ELSE { [token |-> t, bearer |-> t.bearer, err |-> NoErr] }

(* --------------------------- request executor -------------------------- *)

\* Variant: the header carries the bearer that was cached before the token
\* was checked, instead of the one GenerateIfExpired returned.
AuthHeaderStale(authToken) == <<"Bearer", token.bearer>>

\* req.Header.Set("Authorization", "Bearer "+authToken)
AuthHeader(authToken) == <<"Bearer", authToken>>

\* Variant: status 401 is not retried.
ShouldRetryNo401(i, err) ==
    ErrorsIs(err, "unexpected EOF") \/ ErrorsIs(err, "EOF")

\* Variant: io.EOF is not retried.
ShouldRetryNoEOF(i, err) ==
    i = StatusUnauthorized \/ ErrorsIs(err, "unexpected EOF")

\* Variant: every error is retried.
ShouldRetryAnyError(i, err) ==
    i = StatusUnauthorized \/ err # NoErr

\* The retry predicate handed to SetRetry.
ShouldRetry(i, err) ==
    IF i = StatusUnauthorized THEN TRUE
    ELSE IF ErrorsIs(err, "unexpected EOF") THEN TRUE
    ELSE IF ErrorsIs(err, "EOF") THEN TRUE
    ELSE FALSE

\* RequireResponseStatus(client, http.StatusOK): an error of the wrapped
\* client passes through; a status outside the accepted set is an error.
RequireResponseStatus(o, accepted) ==
    IF o.err # NoErr THEN o
    ELSE IF o.status \notin accepted
         THEN Outcome(o.status, o.body, <<"UnexpectedStatusError">>)
         ELSE o

\* SetResponseBodyHandler(client, json.Unmarshal, &rsp): an error of the
\* wrapped client passes through; a body that does not decode is an error.
\* A JSON object without the fields of a page (the error envelope is one)
\* decodes, leaving those fields at their zero values.
ResponseBodyHandler(o) ==
    IF o.err # NoErr THEN o
    ELSE IF o.body.kind \notin {"page", "envelope"}
         THEN Outcome(o.status, o.body, <<"ResponseDecodeError">>)
         ELSE o

\* newAppStoreAPIError: the body matches the API's structured error envelope.
IsAPIError(body) == body.kind = "envelope"

\* The zero value of a page record (HistoryResponse{}, RefundLookupResponse{}).
ZeroPage == [from |-> 0, hasMore |-> FALSE, revision |-> "", items |-> 0]

\* What json.Unmarshal leaves in a destination for the n-th backend answer.
Decoded(body, n) ==
    [from |-> n, hasMore |-> body.hasMore, revision |-> body.revision,
     items |-> body.items]

\* rsp.NotificationHistory: the items a page record lists, each known by the
\* answer it was decoded from and its position in that answer.
Items(rec) == [j \in 1..rec.items |-> [from |-> rec.from, idx |-> j]]

\* The statuses the operation hands to RequireResponseStatus.
Accepted(o) ==
    IF o = "SendRequestTestNotification"
    THEN {StatusOK, StatusNotFound, StatusTooManyRequests, StatusInternalServerError}
    ELSE {StatusOK}

\* json.Unmarshal(body, &rec): a page sets the fields of the destination; a
\* JSON object without any of them leaves the destination as it is.
Unmarshal(rec, body, n) == IF body.kind = "page" THEN Decoded(body, n) ELSE rec

\* Variant: only the handler wrapped last decodes the body.
DecodesIntoLastOnly(hs, k) == k = Len(hs)

\* The body handlers wrapped so far all run on an answer: the one of
\* iteration i decodes into the page record of iteration i.
DecodesInto(hs, k) == \E i \in 1..Len(hs) : hs[i] = k

\* Variant: the loop goes on whenever a page announces more.
LoopStopsIgnoresToken(rsp) == ~rsp.hasMore

\* The exits of a pagination loop after a page: no more pages, or no
\* continuation token to ask for the next one with.
LoopStops(rsp) ==
    IF ~rsp.hasMore THEN TRUE
    ELSE IF rsp.revision # "" THEN FALSE
    ELSE TRUE

\* The return value of a public operation.
Result(status, body, pages, err) ==
    [status |-> status, body |-> body, pages |-> pages, err |-> err]

NoResult == Result(0, NoBody, <<>>, NoErr)

(* ------------------------ signed payload decoding ---------------------- *)

\* The steps of parseJWS, in the order the code takes them.
Stages ==
    << "extractRoot", "parseRoot",
       "extractIntermediate", "parseIntermediate",
       "extractLeaf", "parseLeaf",
       "verifyCert", "ecdsaKey", "parseWithClaims" >>

StageSet == { Stages[i] : i \in 1..Len(Stages) }

\* The error parseJWS returns when a step fails.
StageErr(s) ==
    CASE s = "extractRoot"         -> <<"extractCertByIndex(2) error">>
      [] s = "parseRoot"           -> <<"appstore failed to parse root certificate">>
      [] s = "extractIntermediate" -> <<"extractCertByIndex(1) error">>
      [] s = "parseIntermediate"   -> <<"appstore failed to parse intermediate certificate">>
      [] s = "extractLeaf"         -> <<"extractCertByIndex(0) error">>
      [] s = "parseLeaf"           -> <<"appstore failed to parse leaf certificate">>
      [] s = "verifyCert"          -> <<"verifyCert error">>
      [] s = "ecdsaKey"            -> <<"appstore public key must be of type ecdsa.PublicKey">>
      [] s = "parseWithClaims"     -> <<"jwt.ParseWithClaims error">>

\* A signed payload string, by what the steps make of it: the number of
\* dot-separated segments, whether the second segment is base64url, which
\* fields the decoded second segment mentions, and which steps of parseJWS
\* succeed on it.  A string that has not three segments is no compact JWS, so
\* jwt.ParseWithClaims rejects it; fields are seen only in a decodable segment.
ParseInputs ==
    { p \in [ parts : 1..3, b64 : BOOLEAN, transactionId : BOOLEAN,
              renewalDate : BOOLEAN, ok : [StageSet -> BOOLEAN] ] :
        /\ (p.parts # 3 => ~p.ok["parseWithClaims"])
        /\ ((p.parts < 2 \/ ~p.b64) => (~p.transactionId /\ ~p.renewalDate))
        /\ (p.parts < 2 => ~p.b64) }

NoParseInput ==
    [ parts |-> 1, b64 |-> FALSE, transactionId |-> FALSE, renewalDate |-> FALSE,
      ok |-> [s \in StageSet |-> FALSE] ]

\* Variant: a failed chain verification does not stop parseJWS.
StageAbortsSkipVerify(p, s) == s # "verifyCert" /\ ~p.ok[s]

\* if err != nil { return err } after a step of parseJWS.
StageAborts(p, s) == ~p.ok[s]

\* parseJWS from step i on: the steps run so far are in trace.
RECURSIVE RunStages(_, _, _)
RunStages(p, i, trace) ==
    IF i > Len(Stages)
    THEN [err |-> NoErr, trace |-> trace]
    ELSE IF StageAborts(p, Stages[i])
         THEN [err |-> StageErr(Stages[i]), trace |-> Append(trace, Stages[i])]
         ELSE RunStages(p, i + 1, Append(trace, Stages[i]))

\* parseJWS(jwsEncode, claims): the error returned and the steps taken.
parseJWS(p) == RunStages(p, 1, <<>>)

\* What a parse operation returns: the payload pointer ("nil" or the type of
\* the object pointed to), the error, the steps of parseJWS taken, and
\* whether the operation faulted instead of returning.
ParseResult(payload, err, trace, fault) ==
    [payload |-> payload, err |-> err, trace |-> trace, fault |-> fault]

NoParseResult == ParseResult("nil", NoErr, <<>>, FALSE)

ParseNotificationV2(p) ==
    LET first  == parseJWS(p)
        second == parseJWS(p)
    IN  ParseResult("NotificationPayload", second.err,
                    first.trace \o second.trace, FALSE)

ParseSignedTransaction(p) ==
    LET r == parseJWS(p)
    IN  IF r.err # NoErr
        THEN ParseResult("nil", r.err, r.trace, FALSE)
        ELSE ParseResult("JWSTransaction", NoErr, r.trace, FALSE)

\* Variant: a payload whose shape was recognised is returned as decoded.
ParseJWSEncodeStringTrustProbe(p) ==
    IF p.parts < 2
    THEN ParseResult("nil", NoErr, <<>>, TRUE)
    ELSE IF ~p.b64
    THEN ParseResult("nil", <<"base64.CorruptInputError">>, <<>>, FALSE)
    ELSE IF p.transactionId
    THEN ParseResult("JWSTransaction", NoErr, parseJWS(p).trace, FALSE)
    ELSE IF p.renewalDate
    THEN ParseResult("JWSRenewalInfoDecodedPayload", NoErr, parseJWS(p).trace, FALSE)
    ELSE ParseResult("nil", NoErr, <<>>, FALSE)

ParseJWSEncodeStringRenewalFirst(p) ==
    IF p.parts < 2
    THEN ParseResult("nil", NoErr, <<>>, TRUE)
    ELSE IF ~p.b64
    THEN ParseResult("nil", <<"base64.CorruptInputError">>, <<>>, FALSE)
    ELSE IF p.renewalDate
    THEN ParseResult("JWSRenewalInfoDecodedPayload", parseJWS(p).err,
                     parseJWS(p).trace, FALSE)
    ELSE IF p.transactionId
    THEN ParseResult("JWSTransaction", parseJWS(p).err, parseJWS(p).trace, FALSE)
    ELSE ParseResult("nil", NoErr, <<>>, FALSE)

\* ParseJWSEncodeString(jwsEncode): split, decode the second segment, probe
\* it for a known field, and decode into the shape the probe selects.
ParseJWSEncodeString(p) ==
    IF p.parts < 2
    THEN ParseResult("nil", NoErr, <<>>, TRUE)
    ELSE IF ~p.b64
    THEN ParseResult("nil", <<"base64.CorruptInputError">>, <<>>, FALSE)
    ELSE IF p.transactionId
    THEN ParseResult("JWSTransaction", parseJWS(p).err, parseJWS(p).trace, FALSE)
    ELSE IF p.renewalDate
    THEN ParseResult("JWSRenewalInfoDecodedPayload", parseJWS(p).err,
                     parseJWS(p).trace, FALSE)
    ELSE ParseResult("nil", NoErr, <<>>, FALSE)

\* The transactions of a batch that ParseSignedTransactions keeps.
RECURSIVE KeptTransactions(_, _)
KeptTransactions(ps, i) ==
    IF i > Len(ps) THEN <<>>
    ELSE LET r == ParseSignedTransaction(ps[i])
         IN  IF r.err = NoErr /\ r.payload # "nil"
             THEN <<i>> \o KeptTransactions(ps, i + 1)
             ELSE KeptTransactions(ps, i + 1)

\* ParseSignedTransactions(transactions): the list of the transactions
\* (by position in the batch) that parsed, and the error returned.
ParseSignedTransactions(ps) ==
    ParseResult(KeptTransactions(ps, 1), NoErr, <<>>, FALSE)

PublicParseOps == {"ParseNotificationV2", "ParseSignedTransaction", "ParseJWSEncodeString"}

ParseOps == PublicParseOps \cup {"parseJWS"}

ApplyParse(o, p) ==
    CASE o = "ParseNotificationV2"    -> ParseNotificationV2(p)
      [] o = "ParseSignedTransaction" -> ParseSignedTransaction(p)
      [] o = "ParseJWSEncodeString"   -> ParseJWSEncodeString(p)
      [] o = "parseJWS"               -> ParseResult("claims", parseJWS(p).err,
                                                     parseJWS(p).trace, FALSE)

(* ------------------------------- actions ------------------------------- *)

\* Arguments: how the request comes out, the revision in the caller's query,
\* and whether the caller's query points to a nil url.Values.
NoArgs == [req |-> "ok", revision |-> "", nilQuery |-> FALSE]

HTTPInit ==
    /\ now = 1
    /\ token = EmptyToken
    /\ op = "none"
    /\ args = NoArgs
    /\ pc = "idle"
    /\ cancelled = FALSE
    /\ cancelPc = "none"
    /\ revision = ""
    /\ handlers = <<>>
    /\ pageRec = <<>>
    /\ responses = <<>>
    /\ attempts = <<>>
    /\ reqLog = <<>>
    /\ rspLog = <<>>
    /\ result = NoResult

\* No caller is inside the token manager.
IdleCaller ==
    [pc |-> "idle", checkedAt |-> 0, bearer |-> 0, exp |-> 0, ret |-> 0,
     err |-> FALSE, regenerated |-> FALSE]

TokInit ==
    /\ mu = 0
    /\ callers = [p \in 1..NumCallers |-> IdleCaller]

Init ==
    /\ HTTPInit
    /\ TokInit
    /\ parseIn = NoParseInput
    /\ parseOp = "none"
    /\ parseOut = NoParseResult

\* Top of a pagination loop iteration: a fresh page record, and one more body
\* handler, decoding into it, wrapped around the client built so far.
BeginPage(recs, hs) ==
    /\ pageRec' = Append(recs, ZeroPage)
    /\ handlers' = Append(hs, Len(recs) + 1)

\* The revision the first request of an operation may carry: the query the
\* caller hands to GetTransactionHistory may already hold one.
QueryRevisions(o) ==
    IF o = "GetTransactionHistory" THEN {"", "r2"} ELSE {""}

\* Whether the caller's query may point to a nil map.
NilQueries(o) == IF o = "GetTransactionHistory" THEN BOOLEAN ELSE {FALSE}

\* The arguments a caller may hand to operation o.
CallArgs(o) ==
    { a \in [req : Requests(o), revision : QueryRevisions(o), nilQuery : NilQueries(o)] :
        /\ a.nilQuery => a.revision = ""
        /\ a.req # "ok" => (a.revision = "" /\ ~a.nilQuery) }

\* A caller starts a public operation on the client with arguments a.  Do
\* builds its request first and returns at once when that fails; it faults
\* on a nil context (req.WithContext).  The other operations drop the error
\* of http.NewRequestWithContext and go on with a nil request.
StartCall(o, a) ==
    /\ pc = "idle"
    /\ op' = o
    /\ args' = a
    /\ cancelled' = FALSE
    /\ cancelPc' = "none"
    /\ revision' = a.revision
    /\ responses' = <<>>
    /\ attempts' = <<>>
    /\ reqLog' = <<>>
    /\ rspLog' = <<>>
    /\ IF o = "Do"
       THEN /\ pageRec' = <<>>
            /\ handlers' = <<>>
            /\ IF a.req = "bad"
               THEN /\ pc' = "done"
                    /\ result' = Result(0, NoBody, <<>>,
                                        Wrap("appstore new http request err",
                                             <<"http.NewRequest error">>))
               ELSE /\ pc' = IF a.req = "nilctx" THEN "fault" ELSE "attempt"
                    /\ result' = NoResult
       ELSE /\ BeginPage(<<>>, <<>>)
            /\ pc' = "attempt"
            /\ result' = NoResult
    /\ UNCHANGED << now, token >>
    /\ UNCHANGED << parseVars, tokVars >>

\* The operation returns.
Return(r) ==
    /\ pc' = "done"
    /\ result' = r

\* Variant: the pages collected so far are returned with the error.
FailedPagesKept(collected) == collected

\* return nil, err: the page list returned when a call of the loop failed.
FailedPages(collected) == <<>>

\* GetTransactionHistory / GetRefundHistory / GetNotificationHistory (where
\* revision stands for the paginationToken): the rest of a loop iteration,
\* given what client.Do returned through the status check and the body
\* handlers.  n is the number of backend answers so far.
PagedComplete(o, n) ==
    LET checked == ResponseBodyHandler(RequireResponseStatus(o, {StatusOK}))
        cur     == Len(pageRec)
    IN  IF checked.err # NoErr
        THEN /\ Return(Result(0, NoBody, FailedPages(responses), checked.err))
             /\ UNCHANGED << revision, handlers, pageRec, responses >>
        ELSE /\ pageRec' = [k \in 1..Len(pageRec) |->
                              IF DecodesInto(handlers, k)
                              THEN Unmarshal(pageRec[k], o.body, n)
                              ELSE pageRec[k]]
             /\ responses' = IF op \in HistoryOps
                             THEN Append(responses, cur)
                             ELSE responses \o Items(pageRec'[cur])
             /\ UNCHANGED handlers
             /\ IF LoopStops(pageRec'[cur])
                THEN /\ Return(Result(0, NoBody, responses', NoErr))
                     /\ UNCHANGED revision
                ELSE IF op = "GetTransactionHistory" /\ args.nilQuery
                THEN /\ pc' = "fault"
                     /\ UNCHANGED << revision, result >>
                ELSE /\ revision' = pageRec'[cur].revision
                     /\ pc' = "pagedelay"
                     /\ UNCHANGED result

\* GetALLSubscriptionStatuses / GetTransactionInfo / LookupOrderID /
\* SendRequestTestNotification: the rest of the function, given what
\* client.Do returned through the status check and the body handler.  The
\* object returned is the one record of the call (pointer 1), or nil.
SingleComplete(o, n) ==
    LET checked == ResponseBodyHandler(RequireResponseStatus(o, Accepted(op)))
    IN  IF checked.err # NoErr
        THEN /\ Return(Result(0, NoBody,
                               IF op = "SendRequestTestNotification" THEN <<1>> ELSE <<>>,
                               checked.err))
             /\ UNCHANGED << revision, handlers, pageRec, responses >>
        ELSE /\ pageRec' = [k \in 1..Len(pageRec) |->
                              IF DecodesInto(handlers, k)
                              THEN Unmarshal(pageRec[k], o.body, n)
                              ELSE pageRec[k]]
             /\ Return(Result(0, NoBody, <<1>>, NoErr))
             /\ UNCHANGED << revision, handlers, responses >>

\* StoreClient.Do, after c.httpClient().Do(req) returned: an error is
\* wrapped and returned; otherwise the body is read next.
DoComplete(o) ==
    /\ IF o.err # NoErr
       THEN Return(Result(0, NoBody, <<>>, Wrap("appstore http client do err", o.err)))
       ELSE pc' = "readbody" /\ UNCHANGED result
    /\ UNCHANGED << revision, handlers, pageRec, responses >>

\* Variant: the structured error is looked for in the 200 answers.
DoReturnInverted(o) ==
    IF o.status = StatusOK /\ IsAPIError(o.body)
    THEN Result(o.status, o.body, <<>>, <<"APIError">>)
    ELSE Result(o.status, o.body, <<>>, NoErr)

\* StoreClient.Do, after the body was read: what it returns.
DoReturn(o) ==
    IF o.status # StatusOK /\ IsAPIError(o.body)
    THEN Result(o.status, o.body, <<>>, <<"APIError">>)
    ELSE Result(o.status, o.body, <<>>, NoErr)

\* The errors io.ReadAll(resp.Body) may end with: the body breaks off, or
\* the context was cancelled while the body was being received.
ReadErrors(o) ==
    (IF o.body.kind = "unreadable" THEN { <<"read error">> } ELSE {})
    \cup (IF cancelled THEN { <<"context canceled">> } ELSE {})

\* What an operation other than Do makes of what client.Do returned.
Complete(o, n) ==
    IF op \in PagedOps THEN PagedComplete(o, n) ELSE SingleComplete(o, n)

\* What the body handlers may make of a response: the response itself, or,
\* when the context was cancelled while the body was being received, the
\* error of the interrupted read.
BodyReads(o) ==
    {o} \cup (IF cancelled
              THEN { Outcome(o.status, o.body, <<"context canceled">>) }
              ELSE {})

\* Variant: the retry decorator gives up at the second answer.
DeliverCapped(o, n) ==
    IF ShouldRetry(o.status, o.err) /\ n < 2
    THEN /\ pc' = "retrysleep"
         /\ UNCHANGED << revision, handlers, pageRec, responses, result >>
    ELSE IF op = "Do" THEN DoComplete(o)
    ELSE IF o.err = NoErr
    THEN /\ pc' = "readbody"
         /\ UNCHANGED << revision, handlers, pageRec, responses, result >>
    ELSE Complete(o, n)

\* The retry decorator around the innermost executor, for one outcome of it:
\* a retryable outcome is slept on and retried, any other ends the loop and
\* is handed to the operation.  A response the loop ended with has its body
\* read next: by Do itself, by the body handler in the other operations.
Deliver(o, n) ==
    IF ShouldRetry(o.status, o.err)
    THEN /\ pc' = "retrysleep"
         /\ UNCHANGED << revision, handlers, pageRec, responses, result >>
    ELSE IF op = "Do" THEN DoComplete(o)
    ELSE IF o.err = NoErr
    THEN /\ pc' = "readbody"
         /\ UNCHANGED << revision, handlers, pageRec, responses, result >>
    ELSE Complete(o, n)

\* Variant: the error of GenerateIfExpired is not looked at.
GenFailedIgnored(g) == FALSE

\* if err != nil after c.Token.GenerateIfExpired().
GenFailed(g) == g.err # NoErr

\* One run of the innermost executor: check or regenerate the token, set the
\* Authorization header (a fault on a nil request), hand the request to the
\* HTTP client.
Attempt ==
    /\ pc = "attempt"
    /\ Len(attempts) < MaxAttempts
    /\ \E g \in GenerateIfExpired(token, now) :
         /\ token' = g.token
         /\ IF GenFailed(g)
            THEN /\ attempts' = Append(attempts,
                       [at |-> now, bearer |-> g.bearer, exp |-> g.token.expiredAt,
                        auth |-> <<>>, sent |-> FALSE, genErr |-> g.err # NoErr])
                 /\ Deliver(Outcome(0, NoBody, Wrap("appstore generate token err", g.err)),
                            Len(rspLog))
                 /\ UNCHANGED reqLog
            ELSE IF args.req # "ok"
            THEN /\ attempts' = Append(attempts,
                       [at |-> now, bearer |-> g.bearer, exp |-> g.token.expiredAt,
                        auth |-> <<>>, sent |-> FALSE, genErr |-> g.err # NoErr])
                 /\ pc' = "fault"
                 /\ UNCHANGED << reqLog, revision, handlers, pageRec, responses, result >>
            ELSE /\ attempts' = Append(attempts,
                       [at |-> now, bearer |-> g.bearer, exp |-> g.token.expiredAt,
                        auth |-> AuthHeader(g.bearer), sent |-> ~cancelled,
                        genErr |-> g.err # NoErr])
                 /\ IF cancelled
                    THEN /\ Deliver(Outcome(0, NoBody, CtxErr), Len(rspLog))
                         /\ UNCHANGED reqLog
                    ELSE /\ reqLog' = Append(reqLog,
                               [revision |-> revision, auth |-> AuthHeader(g.bearer)])
                         /\ pc' = "inflight"
                         /\ UNCHANGED << revision, handlers, pageRec, responses, result >>
    /\ UNCHANGED << now, op, args, cancelled, cancelPc, rspLog >>
    /\ UNCHANGED << parseVars, tokVars >>

\* The request in flight ends: the backend's answer is taken, or the
\* transport gives up because the context was cancelled before that.
Response ==
    /\ pc = "inflight"
    /\ IF cancelled
       THEN /\ Deliver(Outcome(0, NoBody, CtxErr), Len(rspLog))
            /\ UNCHANGED rspLog
       ELSE \E o \in ServerOutcomes :
              /\ rspLog' = Append(rspLog, o)
              /\ Deliver(o, Len(rspLog) + 1)
    /\ UNCHANGED << now, token, op, args, cancelled, cancelPc, attempts, reqLog >>
    /\ UNCHANGED << parseVars, tokVars >>

\* The body of the response is read: by io.ReadAll(resp.Body) in Do, by the
\* body handler inside client.Do in the other operations, which then go on
\* with the status check and the decoded body.  A body that was received
\* before the context was cancelled can still be read to its end.
ReadBody ==
    /\ pc = "readbody"
    /\ LET o == rspLog[Len(rspLog)] IN
       IF op = "Do"
       THEN /\ \/ /\ o.body.kind # "unreadable"
                  /\ Return(DoReturn(o))
               \/ \E e \in ReadErrors(o) :
                    Return(Result(o.status, NoBody, <<>>,
                                  Wrap("appstore read http body err", e)))
            /\ UNCHANGED << revision, handlers, pageRec, responses >>
       ELSE \E x \in BodyReads(o) : Complete(x, Len(rspLog))
    /\ UNCHANGED << now, token, op, args, cancelled, cancelPc, attempts, reqLog, rspLog >>
    /\ UNCHANGED << parseVars, tokVars >>

\* The retry decorator's sleep is over: the innermost executor runs again.
WakeRetry ==
    /\ pc = "retrysleep"
    /\ pc' = "attempt"
    /\ UNCHANGED << now, token, op, args, cancelled, cancelPc, revision, handlers,
                    pageRec, responses, attempts, reqLog, rspLog, result >>
    /\ UNCHANGED << parseVars, tokVars >>

\* The inter-page delay is over: the next loop iteration begins.
WakePage ==
    /\ pc = "pagedelay"
    /\ pc' = "attempt"
    /\ BeginPage(pageRec, handlers)
    /\ UNCHANGED << now, token, op, args, cancelled, cancelPc, revision, responses,
                    attempts, reqLog, rspLog, result >>
    /\ UNCHANGED << parseVars, tokVars >>

\* The caller has the result of the operation; the locals of the call are
\* gone, the client (its token cache) stays as the call left it.
Release ==
    /\ pc = "done"
    /\ op' = "none"
    /\ args' = NoArgs
    /\ pc' = "idle"
    /\ cancelled' = FALSE
    /\ cancelPc' = "none"
    /\ revision' = ""
    /\ handlers' = <<>>
    /\ pageRec' = <<>>
    /\ responses' = <<>>
    /\ attempts' = <<>>
    /\ reqLog' = <<>>
    /\ rspLog' = <<>>
    /\ result' = NoResult
    /\ UNCHANGED << now, token >>
    /\ UNCHANGED << parseVars, tokVars >>

\* The caller cancels the context of the operation in progress.
Cancel ==
    /\ pc \in {"attempt", "inflight", "retrysleep", "pagedelay", "readbody"}
    /\ ~cancelled
    /\ cancelled' = TRUE
    /\ cancelPc' = pc
    /\ UNCHANGED << now, token, op, args, pc, revision, handlers, pageRec, responses,
                    attempts, reqLog, rspLog, result >>
    /\ UNCHANGED << parseVars, tokVars >>

\* Time passes.
Tick ==
    /\ now < MaxTime
    /\ now' = now + 1
    /\ UNCHANGED << token, op, args, pc, cancelled, cancelPc, revision, handlers,
                    pageRec, responses, attempts, reqLog, rspLog, result >>
    /\ UNCHANGED << parseVars, tokVars >>

Next ==
    \/ \E o \in Ops : \E a \in CallArgs(o) : StartCall(o, a)
    \/ Attempt
    \/ Response
    \/ ReadBody
    \/ WakeRetry
    \/ WakePage
    \/ Release
    \/ Cancel
    \/ Tick

Spec == Init /\ [][Next]_vars

(* ---------------------------- parse operations ------------------------- *)

\* Some signed payload string is about to be parsed.
ParseInit ==
    /\ HTTPInit
    /\ TokInit
    /\ parseIn \in ParseInputs
    /\ parseOp = "none"
    /\ parseOut = NoParseResult

\* A caller applies a parse operation to the payload string.
ParseCall(o) ==
    /\ parseOp = "none"
    /\ parseOp' = o
    /\ parseOut' = ApplyParse(o, parseIn)
    /\ UNCHANGED << parseIn, httpVars, tokVars >>

ParseNext == \E o \in ParseOps : ParseCall(o)

ParseSpec == ParseInit /\ [][ParseNext]_vars

(* ------------------------- batches of payloads ------------------------- *)

\* A well-formed signed transaction on which exactly the steps in bad fail.
Payload(bad) ==
    [ parts |-> 3, b64 |-> TRUE, transactionId |-> TRUE, renewalDate |-> FALSE,
      ok |-> [st \in StageSet |-> st \notin bad] ]

\* One payload that passes, and one for each step of parseJWS failing.
SamplePayloads == { Payload({}) } \cup { Payload({st}) : st \in StageSet }

RECURSIVE Batches(_)
Batches(n) ==
    IF n = 0 THEN { <<>> }
    ELSE Batches(n - 1) \cup
         { Append(b, p) : b \in { c \in Batches(n - 1) : Len(c) = n - 1 },
                          p \in SamplePayloads }

\* A caller holds a batch of signed payload strings.
BatchInit ==
    /\ HTTPInit
    /\ TokInit
    /\ parseIn \in Batches(MaxTransactions)
    /\ parseOp = "none"
    /\ parseOut = NoParseResult

\* The caller hands the whole batch to ParseSignedTransactions.
ParseBatch ==
    /\ parseOp = "none"
    /\ parseOp' = "ParseSignedTransactions"
    /\ parseOut' = ParseSignedTransactions(parseIn)
    /\ UNCHANGED << parseIn, httpVars, tokVars >>

\* The caller hands the i-th string of the batch to ParseNotificationV2.
ParseOne(i) ==
    /\ parseOp = "none"
    /\ i \in 1..Len(parseIn)
    /\ parseOp' = "ParseNotificationV2"
    /\ parseIn' = << parseIn[i] >>
    /\ parseOut' = ParseNotificationV2(parseIn[i])
    /\ UNCHANGED << httpVars, tokVars >>

BatchNext ==
    \/ ParseBatch
    \/ \E i \in 1..MaxTransactions : ParseOne(i)

BatchSpec == BatchInit /\ [][BatchNext]_vars

(* ------------------- concurrent use of the Token Manager --------------- *)

\* Variant: the check-and-regenerate step is entered without waiting for the
\* mutex.
CanLockAlways(p) == TRUE

\* The mutex is free.
CanLock(p) == mu = 0

\* A request of caller p reaches the innermost executor, which calls
\* c.Token.GenerateIfExpired().
TokCall(p) ==
    /\ callers[p].pc \in {"idle", "returned"}
    /\ callers' = [callers EXCEPT ![p] = [IdleCaller EXCEPT !.pc = "lock"]]
    /\ UNCHANGED << mu, httpVars, parseVars >>

\* Caller p enters the check-and-regenerate step.
TokLock(p) ==
    /\ callers[p].pc = "lock"
    /\ CanLock(p)
    /\ mu' = p
    /\ callers' = [callers EXCEPT ![p].pc = "check"]
    /\ UNCHANGED << httpVars, parseVars >>

\* Caller p looks at the cached expiry: a token that is still valid is the
\* one to return.
TokCheck(p) ==
    /\ callers[p].pc = "check"
    /\ callers' = [callers EXCEPT
         ![p] = IF Expired(token, now)
                THEN [@ EXCEPT !.pc = "sign", !.checkedAt = now]
                ELSE [@ EXCEPT !.pc = "unlock", !.checkedAt = now,
                               !.ret = token.bearer]]
    /\ UNCHANGED << mu, httpVars, parseVars >>

\* Caller p signs a new token; signing may fail, and then nothing is written.
TokSign(p) ==
    /\ callers[p].pc = "sign"
    /\ \/ callers' = [callers EXCEPT
            ![p] = [@ EXCEPT !.pc = "writeExpiry", !.bearer = Generate(now).bearer,
                             !.exp = Generate(now).expiredAt, !.regenerated = TRUE]]
       \/ callers' = [callers EXCEPT ![p] = [@ EXCEPT !.pc = "unlock", !.err = TRUE]]
    /\ UNCHANGED << mu, httpVars, parseVars >>

\* Caller p installs the new pair, one field after the other.
TokWriteExpiry(p) ==
    /\ callers[p].pc = "writeExpiry"
    /\ token' = [token EXCEPT !.expiredAt = callers[p].exp]
    /\ callers' = [callers EXCEPT ![p].pc = "writeBearer"]
    /\ UNCHANGED << mu, now, op, args, pc, cancelled, cancelPc, revision, handlers,
                    pageRec, responses, attempts, reqLog, rspLog, result, parseVars >>

TokWriteBearer(p) ==
    /\ callers[p].pc = "writeBearer"
    /\ token' = [token EXCEPT !.bearer = callers[p].bearer]
    /\ callers' = [callers EXCEPT ![p] = [@ EXCEPT !.pc = "unlock", !.ret = token'.bearer]]
    /\ UNCHANGED << mu, now, op, args, pc, cancelled, cancelPc, revision, handlers,
                    pageRec, responses, attempts, reqLog, rspLog, result, parseVars >>

\* Caller p leaves the check-and-regenerate step and returns.
TokUnlock(p) ==
    /\ callers[p].pc = "unlock"
    /\ mu' = 0
    /\ callers' = [callers EXCEPT ![p].pc = "returned"]
    /\ UNCHANGED << httpVars, parseVars >>

TokNext ==
    \/ \E p \in 1..NumCallers :
         \/ TokCall(p)
         \/ TokLock(p)
         \/ TokCheck(p)
         \/ TokSign(p)
         \/ TokWriteExpiry(p)
         \/ TokWriteBearer(p)
         \/ TokUnlock(p)
    \/ Tick

TokSpec == Init /\ [][TokNext]_vars

(* ------------------------------ properties ----------------------------- *)

Last(q) == q[Len(q)]

\* The call in progress was handed arguments its request can be built from,
\* and a query that holds a map.
WellFormed == args.req = "ok" /\ ~args.nilQuery

\* A backend answer that is a well-formed page.
PageAnswer(o) == o.status = StatusOK /\ o.err = NoErr /\ o.body.kind = "page"

\* The backend has answered n times: n-1 pages with hasMore and a non-empty
\* revision, then a page without hasMore.
HistoryScenario(n) ==
    /\ n >= 1
    /\ Len(rspLog) = n
    /\ \A k \in 1..n : PageAnswer(rspLog[k])
    /\ \A k \in 1..(n - 1) : rspLog[k].body.hasMore /\ rspLog[k].body.revision # ""
    /\ ~rspLog[n].body.hasMore

\* C1 (as claimed): in GetTransactionHistory and GetRefundHistory, against a
\* backend whose first n-1 answers are pages with hasMore and a non-empty
\* revision and whose n-th answer is a page without hasMore, the call has
\* issued exactly n requests, request k+1 with the revision of answer k (the
\* first with the revision of the caller's query, if any), nothing is
\* requested after the n-th answer, and, once the body of the n-th answer is
\* read, the call has returned with no error a list of exactly n pages in
\* the order of the answers: its k-th entry holds what answer k carried.
C1_Pagination ==
    op \in HistoryOps =>
      /\ \A k \in 1..Len(rspLog) :
           ( /\ k < Len(reqLog)
             /\ \A j \in 1..k : PageAnswer(rspLog[j]) /\ rspLog[j].body.hasMore
                                /\ rspLog[j].body.revision # "" )
           => reqLog[k + 1].revision = rspLog[k].body.revision
      /\ HistoryScenario(Len(rspLog)) =>
           /\ pc \in {"readbody", "done"}
           /\ Len(reqLog) = Len(rspLog)
           /\ op = "GetRefundHistory" => reqLog[1].revision = ""
           /\ \A k \in 1..(Len(rspLog) - 1) :
                reqLog[k + 1].revision = rspLog[k].body.revision
           /\ (pc = "done" /\ ~cancelled) =>
                /\ result.err = NoErr
                /\ Len(result.pages) = Len(rspLog)
                /\ \A k \in 1..Len(result.pages) :
                     pageRec[result.pages[k]] = Decoded(rspLog[k].body, k)

\* The scenario of the specification: hasMore with revision r1, then no
\* more.  Two requests were made, the second with r1, and a list of two
\* entries was returned with no error; both entries hold the second answer.
C1_Witness ==
    /\ op = "GetTransactionHistory"
    /\ pc = "done"
    /\ ~cancelled
    /\ HistoryScenario(2)
    /\ rspLog[1].body.revision = "r1"
    /\ Len(reqLog) = 2
    /\ reqLog[2].revision = "r1"
    /\ result.err = NoErr
    /\ Len(result.pages) = 2
    /\ pageRec[result.pages[1]] = Decoded(rspLog[2].body, 2)
    /\ pageRec[result.pages[2]] = Decoded(rspLog[2].body, 2)

\* C2: when the backend answers 401 to the first attempt of a call, the 401
\* is not what the call returns; when it answers 200 to the second, exactly
\* two runs of the underlying executor have occurred and StoreClient.Do
\* returns that 200 answer.
C2_RetryOn401 ==
    (op = "Do" /\ rspLog # <<>> /\ rspLog[1].status = StatusUnauthorized) =>
      /\ pc = "done" => result.status # StatusUnauthorized
      /\ (Len(rspLog) >= 2 /\ rspLog[2].status = StatusOK) =>
           /\ pc \in {"readbody", "done"}
           /\ Len(attempts) = 2
           /\ Len(reqLog) = 2
           /\ Len(rspLog) = 2
           /\ pc = "done" =>
                /\ result.status = StatusOK
                /\ (rspLog[2].body.kind # "unreadable" /\ ~cancelled) =>
                     result = Result(StatusOK, rspLog[2].body, <<>>, NoErr)

C2_Witness ==
    /\ op = "Do"
    /\ pc = "done"
    /\ Len(rspLog) = 2
    /\ rspLog[1].status = StatusUnauthorized
    /\ rspLog[2].status = StatusOK
    /\ result.status = StatusOK

\* C3: of any two successful GenerateIfExpired calls, the later one returns
\* the same bearer as the earlier one if it is made before the expiry of the
\* token the earlier one returned, and a different bearer with a strictly
\* later expiry if it is made at or after that expiry.
C3_TokenCache ==
    \A i, j \in 1..Len(attempts) :
      (i < j /\ ~attempts[i].genErr /\ ~attempts[j].genErr) =>
        /\ attempts[j].at < attempts[i].exp =>
             /\ attempts[j].bearer = attempts[i].bearer
             /\ attempts[j].exp = attempts[i].exp
        /\ attempts[j].at >= attempts[i].exp =>
             /\ attempts[j].bearer # attempts[i].bearer
             /\ attempts[j].exp > attempts[i].exp

\* A call reuses the token within its window and then, at the very instant
\* of expiry, gets a new one.
C3_Witness ==
    /\ Len(attempts) = 3
    /\ \A i \in 1..3 : ~attempts[i].genErr
    /\ attempts[2].at < attempts[1].exp
    /\ attempts[2].bearer = attempts[1].bearer
    /\ attempts[3].at = attempts[1].exp
    /\ attempts[3].bearer # attempts[1].bearer

\* The stage of the decode pipeline a step of parseJWS belongs to: 1 obtain
\* the certificates (extract and parse), 2 verify the chain, 3 check the
\* leaf key type, 4 verify the signature and decode the claims.
StageRank(st) ==
    CASE st \in {"extractRoot", "parseRoot", "extractIntermediate",
                 "parseIntermediate", "extractLeaf", "parseLeaf"} -> 1
      [] st = "verifyCert"      -> 2
      [] st = "ecdsaKey"        -> 3
      [] st = "parseWithClaims" -> 4

StageIndex(st) == CHOOSE i \in 1..Len(Stages) : Stages[i] = st

\* C4: parseJWS takes its steps in the order certificates, chain
\* verification, leaf key type, signature verification; it reaches the
\* signature step only if every earlier step succeeded on the payload, and it
\* returns no error only if chain verification and signature verification
\* (and every other step) succeeded.
C4_StageOrder ==
    parseOp = "parseJWS" =>
      LET t == parseOut.trace IN
      /\ \A i, j \in 1..Len(t) : i < j => StageRank(t[i]) <= StageRank(t[j])
      /\ \A i, j \in 1..Len(t) : i # j => t[i] # t[j]
      /\ \A i \in 1..Len(t) :
           t[i] = "parseWithClaims" =>
             /\ i = Len(Stages)
             /\ \A st \in StageSet \ {"parseWithClaims"} :
                  /\ parseIn.ok[st]
                  /\ \E k \in 1..(i - 1) : t[k] = st
      /\ parseOut.err = NoErr =>
           /\ parseIn.ok["verifyCert"]
           /\ parseIn.ok["parseWithClaims"]
           /\ \A st \in StageSet : \E k \in 1..Len(t) : t[k] = st

\* A payload whose certificates are fine but whose chain does not verify:
\* parseJWS stops at the chain verification with an error.
C4_Witness ==
    /\ parseOp = "parseJWS"
    /\ ~parseIn.ok["verifyCert"]
    /\ parseIn.ok["ecdsaKey"]
    /\ parseIn.ok["parseWithClaims"]
    /\ Len(parseOut.trace) = StageIndex("verifyCert")
    /\ parseOut.err # NoErr

\* Some step of the decode pipeline fails on the payload.
SomeStageFails(p) == \E st \in StageSet : ~p.ok[st]

\* C5 (as claimed): a public parse operation on a payload on which a stage
\* of the decode pipeline fails returns an error and a nil payload; a payload
\* object is returned only with a nil error.
C5_NilOnError ==
    (parseOp \in PublicParseOps /\ ~parseOut.fault) =>
      /\ (Len(parseOut.trace) > 0 /\ SomeStageFails(parseIn)) =>
           (parseOut.err # NoErr /\ parseOut.payload = "nil")
      /\ parseOut.payload # "nil" => parseOut.err = NoErr

\* C6: ParseJWSEncodeString on a payload whose probe selects a shape but
\* whose chain verification or signature verification fails returns an
\* error; it returns a nil error with a payload object only for a payload on
\* which every step of the verification succeeded.
C6_ProbeIsNoTrust ==
    parseOp = "ParseJWSEncodeString" =>
      /\ ( /\ parseIn.parts >= 2 /\ parseIn.b64
           /\ (parseIn.transactionId \/ parseIn.renewalDate)
           /\ (~parseIn.ok["verifyCert"] \/ ~parseIn.ok["parseWithClaims"]) )
         => parseOut.err # NoErr
      /\ (parseOut.payload # "nil" /\ parseOut.err = NoErr) =>
           \A st \in StageSet : parseIn.ok[st]

\* A payload that mentions transactionId and whose chain verifies, but whose
\* signature does not: rejected.
C6_Witness ==
    /\ parseOp = "ParseJWSEncodeString"
    /\ parseIn.parts = 3 /\ parseIn.b64 /\ parseIn.transactionId
    /\ parseIn.ok["verifyCert"]
    /\ ~parseIn.ok["parseWithClaims"]
    /\ parseOut.payload = "JWSTransaction"
    /\ parseOut.err = StageErr("parseWithClaims")

\* Runs of the innermost executor, on a request that was built, that found
\* the context cancelled: the token was obtained, but the HTTP client put
\* nothing on the wire.
AbortedAttempts ==
    { i \in 1..Len(attempts) :
        args.req = "ok" /\ ~attempts[i].sent /\ ~attempts[i].genErr }

\* C7: once the context is cancelled (during an attempt in flight, a retry
\* sleep or the inter-page delay) no further request reaches the backend and
\* no further answer is taken from it; the executor runs at most once more,
\* without sending, and the operation then returns an error (and a
\* pagination loop no pages); it never returns success after such a
\* cancellation.  Stated for calls whose request could be built.
C7_Cancellation ==
    /\ [] ( /\ (pc = "done" /\ cancelled /\ cancelPc # "readbody") =>
                 /\ result.err # NoErr
                 /\ op \in PagedOps => result.pages = <<>>
            /\ Cardinality(AbortedAttempts) <= 1
            /\ \A i \in AbortedAttempts :
                 /\ cancelled
                 /\ i = Len(attempts)
                 /\ pc = "done"
                 /\ ErrorsIs(result.err, "context canceled")
            /\ cancelled => pc \notin {"idle"} )
    /\ [][ (cancelled /\ pc # "done" /\ WellFormed) =>
             /\ reqLog' = reqLog
             /\ rspLog' = rspLog
             /\ pc' \in {pc, "attempt", "done", "pagedelay"}
             /\ (pc' = "pagedelay" /\ pc # "pagedelay") =>
                  (pc = "readbody" /\ op \in PagedOps)
             /\ (pc = "attempt" => pc' \in {pc, "done"}) ]_vars

\* Cancelled during the inter-page delay after a first page that announced
\* more: the second page is never requested and the call fails.
C7_Witness ==
    /\ op \in PagedOps
    /\ pc = "done"
    /\ cancelPc = "pagedelay"
    /\ Len(reqLog) = 1
    /\ rspLog[1].body.hasMore
    /\ AbortedAttempts = {2}
    /\ result.err = CtxErr

\* C8: every request that reaches the backend was sent by a run of the
\* innermost executor that first called GenerateIfExpired, and carries
\* "Bearer " plus the bearer that very call returned, a token that is not
\* expired at the time of the attempt; the k-th request is the k-th such run.
C8_AuthInnermost ==
    LET sentRuns == SelectSeq(attempts, LAMBDA a : a.sent) IN
    /\ Len(sentRuns) = Len(reqLog)
    /\ \A k \in 1..Len(reqLog) :
         /\ ~sentRuns[k].genErr
         /\ reqLog[k].auth = <<"Bearer", sentRuns[k].bearer>>
         /\ sentRuns[k].at < sentRuns[k].exp
    /\ \A i \in 1..Len(attempts) :
         ~attempts[i].genErr =>
           /\ args.req = "ok" => attempts[i].auth = <<"Bearer", attempts[i].bearer>>
           /\ attempts[i].bearer = attempts[i].exp - Validity

\* A retried attempt is sent with a token generated for it, the token of
\* the first attempt having expired during the retry sleep.
C8_Witness ==
    /\ Len(reqLog) = 2
    /\ rspLog # <<>>
    /\ rspLog[1].status = StatusUnauthorized
    /\ reqLog[1].auth # reqLog[2].auth
    /\ reqLog[2].auth = <<"Bearer", token.bearer>>

\* The outcomes the retry predicate is to accept: status 401, or an error
\* whose cause is io.EOF or io.ErrUnexpectedEOF.
Retryable(o) ==
    \/ o.status = StatusUnauthorized
    \/ o.err \in { <<"EOF">>, <<"unexpected EOF">>,
                   <<"url.Error", "EOF">>, <<"url.Error", "unexpected EOF">> }

\* What the operation makes of an outcome the attempt loop ended with: an
\* error is returned, the body of a response is read next.
EndsWith(o) ==
    IF o.err # NoErr
    THEN /\ pc' = "done"
         /\ result'.err = IF op = "Do"
                          THEN Wrap("appstore http client do err", o.err)
                          ELSE o.err
    ELSE pc' = "readbody" /\ result' = result /\ responses' = responses

\* What the operation makes of a response once its body is read, the
\* context not being cancelled.
WorksOn(o) ==
    /\ op = "Do" =>
         /\ pc' = "done"
         /\ result'.status = o.status
         /\ o.body.kind # "unreadable" => result'.body = o.body
    /\ (op # "Do" /\ o.status \notin Accepted(op)) =>
         (pc' = "done" /\ result'.err = <<"UnexpectedStatusError">>)
    /\ (op \in HistoryOps /\ PageAnswer(o)) =>
         (responses' = Append(responses, Len(pageRec))
          /\ pageRec'[Len(pageRec)].from = Len(rspLog))

\* C9: an answer of the backend is retried exactly when its status is 401
\* or its error is, or wraps, io.EOF or io.ErrUnexpectedEOF; with any other
\* answer the attempt loop ends and that answer is the outcome the operation
\* works on; nothing but such an answer is ever retried.
C9_RetryPredicate ==
    [][ /\ (pc = "inflight" /\ rspLog' # rspLog) =>
             IF Retryable(Last(rspLog'))
             THEN pc' = "retrysleep" /\ result' = result /\ responses' = responses
             ELSE EndsWith(Last(rspLog'))
        /\ (pc = "readbody" /\ pc' # "readbody" /\ ~cancelled) =>
             (~Retryable(Last(rspLog)) /\ rspLog' = rspLog /\ WorksOn(Last(rspLog)))
        /\ (pc' = "retrysleep" /\ pc # "retrysleep") =>
             (pc = "inflight" /\ rspLog' # rspLog /\ Retryable(Last(rspLog'))) ]_vars

\* A 500 answer is not retried and is what Do returns; an EOF was retried
\* before it.
C9_Witness ==
    /\ op = "Do"
    /\ pc = "done"
    /\ Len(rspLog) = 2
    /\ rspLog[1].err = <<"EOF">>
    /\ rspLog[2].status = StatusInternalServerError
    /\ result.status = StatusInternalServerError

\* C10: a run of the innermost executor in which GenerateIfExpired fails
\* sends nothing, leaves the cached token as it was, is the last run of the
\* call (it is not retried), and the operation returns an error that wraps
\* the generation error.
C10_GenerationFailure ==
    /\ [] ( \A i \in 1..Len(attempts) :
              attempts[i].genErr =>
                /\ ~attempts[i].sent
                /\ i = Len(attempts)
                /\ pc = "done"
                /\ ErrorsIs(result.err, "TokenGenerationError")
                /\ op # "SendRequestTestNotification" => result.pages = <<>>
                /\ Len(reqLog) = Len(SelectSeq(attempts, LAMBDA a : a.sent)) )
    /\ [][ ( /\ pc = "attempt"
             /\ Len(attempts') = Len(attempts) + 1
             /\ Last(attempts').genErr ) =>
             (token' = token /\ reqLog' = reqLog /\ attempts'[Len(attempts')].exp = token.expiredAt) ]_vars

\* The token expired during a retry sleep and signing the next one fails:
\* the old pair stays cached and the call fails after one request.
C10_Witness ==
    /\ pc = "done"
    /\ Len(attempts) = 2
    /\ attempts[2].genErr
    /\ Len(reqLog) = 1
    /\ token.bearer = attempts[1].bearer
    /\ now >= token.expiredAt
    /\ ErrorsIs(result.err, "TokenGenerationError")

\* The cached pair is one a single generation produced, or the empty pair.
WholePair(t) == t = EmptyToken \/ \E n \in 1..MaxTime : t = Generate(n)

\* C11: whatever the interleaving of concurrent GenerateIfExpired callers,
\* the cached pair seen by anyone outside the check-and-regenerate step, and
\* by every caller that looks at it, is one a single generation produced; a
\* caller that completes the step with a token leaves that very token
\* installed, with an expiry later than the time at which the caller
\* looked; and only the holder of the mutex is inside the step.
C11_ConcurrentCallers ==
    /\ mu = 0 => WholePair(token)
    /\ \A p \in 1..NumCallers :
         /\ callers[p].pc = "check" => WholePair(token)
         /\ callers[p].pc \in {"check", "sign", "writeExpiry", "writeBearer", "unlock"}
              => mu = p
         /\ (callers[p].pc = "unlock" /\ ~callers[p].err) =>
              /\ WholePair(token)
              /\ callers[p].ret = token.bearer
              /\ token.expiredAt > callers[p].checkedAt
              /\ token # EmptyToken
         /\ (callers[p].pc = "returned" /\ ~callers[p].err) =>
              /\ callers[p].ret # 0
              /\ token.expiredAt > callers[p].checkedAt

\* One caller has just installed a second-generation token while the other
\* waits for the mutex.
C11_Witness ==
    /\ callers[1].pc = "unlock"
    /\ callers[1].regenerated
    /\ callers[2].pc = "lock"
    /\ callers[2].checkedAt = 0
    /\ token.bearer > 1
    /\ mu = 1

\* C12: StoreClient.Do, for the answer the executor hands it: an answer
\* with a status other than 200 (every non-2xx status is one) whose body
\* matches the structured error envelope is returned as its status, its body
\* and an APIError; an answer with status 200, or with a body that does not
\* match the envelope, is returned as its status and body with a nil error.
\* (An answer whose body cannot be read has no body to match.)
C12_DoAPIError ==
    (op = "Do" /\ pc = "done" /\ rspLog # <<>> /\ Last(attempts).sent
       /\ ~cancelled /\ Last(rspLog).err = NoErr
       /\ Last(rspLog).body.kind # "unreadable") =>
      LET o == Last(rspLog) IN
      /\ result.status = o.status
      /\ result.body = o.body
      /\ IF o.status # StatusOK /\ o.body.kind = "envelope"
         THEN result.err = <<"APIError">>
         ELSE result.err = NoErr

\* A 500 answer with the envelope, and a 200 answer with a body that looks
\* like the envelope, are both reached; the witness is the first.
C12_Witness ==
    /\ op = "Do"
    /\ pc = "done"
    /\ Len(rspLog) = 1
    /\ rspLog[1] = Outcome(StatusInternalServerError, EnvelopeBody, NoErr)
    /\ result = Result(StatusInternalServerError, EnvelopeBody, <<>>, <<"APIError">>)

\* C13 (as claimed): when the chain verification or the signature
\* verification (or any other step of parseJWS) fails on a payload handed to
\* ParseSignedTransactions or to ParseNotificationV2, the operation returns
\* a non-nil error.
C13_NoSilentSwallowing ==
    ( /\ parseOp \in {"ParseSignedTransactions", "ParseNotificationV2"}
      /\ \E i \in 1..Len(parseIn) : SomeStageFails(parseIn[i]) )
    => parseOut.err # NoErr

\* C14: ParseJWSEncodeString on a string whose second segment decodes: a
\* payload that mentions transactionId is decoded as a transaction, also
\* when it mentions renewalDate too; one that mentions only renewalDate is
\* decoded as renewal info; one that mentions neither yields no result and
\* no error, and no step of parseJWS (no chain or signature verification)
\* is taken.
C14_ShapeSelection ==
    (parseOp = "ParseJWSEncodeString" /\ parseIn.parts >= 2 /\ parseIn.b64) =>
      /\ parseIn.transactionId => parseOut.payload = "JWSTransaction"
      /\ (~parseIn.transactionId /\ parseIn.renewalDate) =>
           parseOut.payload = "JWSRenewalInfoDecodedPayload"
      /\ (parseOut.payload # "nil") => parseOut.trace = parseJWS(parseIn).trace
      /\ (~parseIn.transactionId /\ ~parseIn.renewalDate) =>
           /\ parseOut.payload = "nil"
           /\ parseOut.err = NoErr
           /\ parseOut.trace = <<>>

\* A payload that mentions both fields and verifies: a transaction.
C14_Witness ==
    /\ parseOp = "ParseJWSEncodeString"
    /\ parseIn.parts = 3 /\ parseIn.b64
    /\ parseIn.transactionId /\ parseIn.renewalDate
    /\ \A st \in StageSet : parseIn.ok[st]
    /\ parseOut.payload = "JWSTransaction"
    /\ parseOut.err = NoErr

\* C19 (as claimed): ParseJWSEncodeString returns a result or an error for
\* every input string, also one with fewer than two dot-separated segments;
\* it never faults.
C19_Total ==
    parseOp = "ParseJWSEncodeString" => ~parseOut.fault

\* C15: in a call of Do that is neither cancelled nor hit by a token
\* generation failure, every answer but the last one was retryable, and the
\* attempt loop has returned (Do reads the body or has returned) exactly
\* when the backend has given an answer that is not retryable: the number of
\* attempts made never ends the loop.
C15_NoAttemptCap ==
    ( /\ op = "Do" /\ args.req = "ok" /\ ~cancelled
      /\ \A i \in 1..Len(attempts) : ~attempts[i].genErr ) =>
      /\ \A k \in 1..(Len(rspLog) - 1) : Retryable(rspLog[k])
      /\ pc \in {"readbody", "done"} <=> (rspLog # <<>> /\ ~Retryable(Last(rspLog)))
      /\ pc = "retrysleep" => Len(attempts) = Len(rspLog)

\* The backend has answered every attempt so far with 401 or EOF, and the
\* call is about to retry once more.
C15_Witness ==
    /\ op = "Do"
    /\ ~cancelled
    /\ pc = "retrysleep"
    /\ Len(rspLog) = MaxAttempts
    /\ Len(attempts) = MaxAttempts
    /\ \A k \in 1..Len(rspLog) : Retryable(rspLog[k])
    /\ \E k \in 1..Len(rspLog) : rspLog[k].status = StatusUnauthorized
    /\ \E k \in 1..Len(rspLog) : rspLog[k].err = <<"EOF">>

\* A backend answer after which a pagination loop asks for the next page.
Continues(o) == PageAnswer(o) /\ o.body.hasMore /\ o.body.revision # ""

\* A backend answer that passes the status check and decodes, and after
\* which a pagination loop returns its pages: no more pages announced, or
\* more announced without a continuation token.
Stops(o) ==
    /\ o.status = StatusOK /\ o.err = NoErr
    /\ o.body.kind \in {"page", "envelope"}
    /\ ~Continues(o)

\* The items of the first k answers that were decoded as pages, in order.
RECURSIVE ItemsUpTo(_)
ItemsUpTo(k) ==
    IF k = 0 THEN <<>>
    ELSE ItemsUpTo(k - 1) \o
         (IF PageAnswer(rspLog[k])
          THEN [j \in 1..rspLog[k].body.items |-> [from |-> k, idx |-> j]]
          ELSE <<>>)

\* C16: a pagination loop (GetTransactionHistory, GetRefundHistory,
\* GetNotificationHistory) goes on for as long as every answer is retried or
\* is a page that announces more and carries a continuation token; it
\* returns what it collected exactly at the first answer without hasMore or
\* with an empty token, and returns an error at the first failed call; the
\* number of pages collected never ends it.  Stated for calls with
\* well-formed arguments.
C16_LoopExits ==
    (op \in PagedOps /\ WellFormed) =>
      /\ pc # "fault"
      /\ \A k \in 1..(Len(rspLog) - 1) : Retryable(rspLog[k]) \/ Continues(rspLog[k])
      /\ pc \notin {"readbody", "done"} =>
           \A k \in 1..Len(rspLog) : Retryable(rspLog[k]) \/ Continues(rspLog[k])
      /\ pc = "readbody" => ~Retryable(Last(rspLog))
      /\ (pc = "done" /\ ~cancelled /\ \A i \in 1..Len(attempts) : ~attempts[i].genErr) =>
           /\ rspLog # <<>>
           /\ ~Retryable(Last(rspLog)) /\ ~Continues(Last(rspLog))
           /\ result.err = NoErr <=> Stops(Last(rspLog))
      /\ (pc = "done" /\ result.err = NoErr) =>
           /\ Stops(Last(rspLog))
           /\ op \in HistoryOps =>
                Len(result.pages) =
                  Cardinality({ k \in 1..Len(rspLog) : ~Retryable(rspLog[k]) })
           /\ op = "GetNotificationHistory" =>
                Len(result.pages) = Len(ItemsUpTo(Len(rspLog)))

\* GetNotificationHistory has collected the items of MaxAttempts pages, each
\* announcing more with a token, and is about to ask for the next one.
C16_Witness ==
    /\ op = "GetNotificationHistory"
    /\ pc = "pagedelay"
    /\ ~cancelled
    /\ Len(rspLog) = MaxAttempts
    /\ \A k \in 1..Len(rspLog) : Continues(rspLog[k]) /\ rspLog[k].body.items = 2
    /\ Len(responses) = 2 * MaxAttempts

\* The position in rspLog of the k-th answer that was not retried.
Answered(k) ==
    CHOOSE i \in 1..Len(rspLog) :
      /\ ~Retryable(rspLog[i])
      /\ Cardinality({ j \in 1..i : ~Retryable(rspLog[j]) }) = k

\* C17 (as claimed): when a pagination loop returns, page k of the list of
\* GetTransactionHistory or GetRefundHistory holds the content of the k-th
\* answer that was not retried, and the list of GetNotificationHistory holds
\* the items of those answers in order: no later answer was decoded into the
\* page record of an earlier iteration.
C17_PageFrame ==
    (op \in PagedOps /\ pc = "done" /\ result.err = NoErr) =>
      /\ op \in HistoryOps =>
           \A k \in 1..Len(result.pages) :
             LET o   == rspLog[Answered(k)]
                 rec == pageRec[result.pages[k]]
             IN  /\ rec.hasMore = o.body.hasMore
                 /\ rec.revision = o.body.revision
                 /\ rec.items = o.body.items
                 /\ o.body.kind = "page" => rec.from = Answered(k)
      /\ op = "GetNotificationHistory" => result.pages = ItemsUpTo(Len(rspLog))

\* What a pagination loop returns for an answer that is a failed call.
CallError(o) ==
    IF o.err # NoErr THEN o.err
    ELSE IF o.status # StatusOK THEN <<"UnexpectedStatusError">>
    ELSE <<"ResponseDecodeError">>

\* C18: a pagination loop that returns an error returns no pages, whatever
\* it had collected before the failed call, and the error is the one of the
\* failed call; pages are returned only with the nil error.
C18_AllOrNothing ==
    (op \in PagedOps /\ pc = "done") =>
      /\ result.err # NoErr => result.pages = <<>>
      /\ result.pages # <<>> => result.err = NoErr
      /\ ( /\ ~cancelled /\ \A i \in 1..Len(attempts) : ~attempts[i].genErr
           /\ ~Stops(Last(rspLog)) )
         => (result.err = CallError(Last(rspLog)) /\ result.err # NoErr)

\* GetRefundHistory collected a first page that announced more; the call
\* for the second page was answered 500: the first page is not returned.
C18_Witness ==
    /\ op = "GetRefundHistory"
    /\ pc = "done"
    /\ Len(rspLog) = 2
    /\ Continues(rspLog[1])
    /\ rspLog[2].status = StatusInternalServerError
    /\ Len(responses) = 1
    /\ result.pages = <<>>
    /\ result.err = <<"UnexpectedStatusError">>

====
